---- MODULE Spec2Model ----
(***************************************************************************)
(* A model of line_counts.py: main() walks the two ghazal directories,     *)
(* sorts the *.txt files of each by numeric stem, counts the non-empty     *)
(* lines of every file (count_nonempty_lines), and prints descriptive      *)
(* statistics over the collected hemistich-pair counts.                    *)
(*                                                                         *)
(* Text is modelled as sequences of one-character strings.  Two            *)
(* specifications are given: Spec is a whole run of main(); SpecFn applies *)
(* count_nonempty_lines alone to file contents drawn from a larger bounded *)
(* set.                                                                    *)
(***************************************************************************)
EXTENDS Integers, Sequences, FiniteSets, TLC

\* ------------------------------------------------------------------ bounds
\* largest number of *.txt files in one directory (runs of main)
MaxFiles == 2
\* longest file content, in characters, enumerated exhaustively (SpecFn)
MaxChars == 4

\* ------------------------------------------------------------- characters
LF == "\n"
CR == "\r"
SP == " "
INK == "a"
\* a character for which str.isdigit() is true and int() raises (U+00B2)
SUP2 == "^2"

FileChars == {INK, SP, LF, CR}
\* the characters str.strip() removes, among FileChars
Whitespace == {SP, LF, CR}
DecimalChars == {"0", "1", "2"}

\* ------------------------------------------------- reading a file as text
\* open(..., "r") uses universal newlines: "\r\n" and a lone "\r" are both
\* delivered as "\n" (the "\n" of a "\r\n" is dropped, every "\r" becomes "\n")
Translate(s) ==
    LET marked == [i \in 1..Len(s) |->
                      [c |-> s[i], drop |-> s[i] = LF /\ i > 1 /\ s[i - 1] = CR]]
        kept == SelectSeq(marked, LAMBDA m : ~m.drop)
    IN  [i \in 1..Len(kept) |-> IF kept[i].c = CR THEN LF ELSE kept[i].c]

\* iterating a text file yields its lines, each with its trailing "\n"
\* (the last line may lack one): a line starts at the first character and
\* after every "\n"
SplitLines(t) ==
    LET idx == [i \in 1..Len(t) |-> i]
        starts == SelectSeq(idx, LAMBDA i : i = 1 \/ t[i - 1] = LF)
        k == Len(starts)
    IN  [j \in 1..k |->
            SubSeq(t, starts[j], IF j < k THEN starts[j + 1] - 1 ELSE Len(t))]

FileLines(content) == SplitLines(Translate(content))

RECURSIVE lstrip(_)
lstrip(line) ==
    IF line # <<>> /\ line[1] \in Whitespace THEN lstrip(Tail(line)) ELSE line

RECURSIVE rstrip(_)
rstrip(line) ==
    IF line # <<>> /\ line[Len(line)] \in Whitespace
    THEN rstrip(SubSeq(line, 1, Len(line) - 1))
    ELSE line

strip(line) == rstrip(lstrip(line))

\* truthiness of line.strip(): a non-empty string
IsCountedNoStrip(line) == line # <<>>
IsCounted(line) == strip(line) # <<>>

\* total = sum(1 for line in f if line.strip())
SumCounted(lines) == Len(SelectSeq(lines, IsCounted))

Total(content) == SumCounted(FileLines(content))

IsOddAlwaysEven(total) == FALSE
IsOdd(total) == total % 2 # 0

IsLargeFrom28(total) == total >= 28
IsLarge(total) == total > 28

Half(total) == total \div 2

\* the outcome of count_nonempty_lines(filepath) on a file with this content:
\* the exception raised (or "none"), what it printed, the value returned
WarningLine(filepath, total) ==
    [kind |-> "warning", file |-> filepath, total |-> total]

OddError(filepath, total) ==
    [kind |-> "ValueError", what |-> "odd", file |-> filepath, total |-> total]

NoError == [kind |-> "none"]

count_nonempty_lines(filepath, content) ==
    LET total == Total(content) IN
    IF IsOdd(total)
    THEN [exc |-> OddError(filepath, total), printed |-> <<>>, value |-> -1]
    ELSE [exc |-> NoError,
          printed |-> IF IsLarge(total)
                      THEN <<WarningLine(filepath, total)>> ELSE <<>>,
          value |-> Half(total)]

\* ------------------------------------------------------ ordering of files
\* str.isdigit(): non-empty and every character a digit character
isdigit(stem) ==
    /\ stem # <<>>
    /\ \A i \in 1..Len(stem) : stem[i] \in DecimalChars \cup {SUP2}

\* int() accepts decimal digits only
IntParses(stem) == \A i \in 1..Len(stem) : stem[i] \in DecimalChars

DigitValue(c) == IF c = "0" THEN 0 ELSE IF c = "1" THEN 1 ELSE 2

RECURSIVE int(_)
int(stem) ==
    IF stem = <<>> THEN 0
    ELSE 10 * int(SubSeq(stem, 1, Len(stem) - 1)) + DigitValue(stem[Len(stem)])

\* key=lambda x: int(x.stem) if x.stem.isdigit() else float("inf")
KeyRaises(stem) == isdigit(stem) /\ ~IntParses(stem)

SortKeyNoInf(stem) == [inf |-> FALSE, n |-> IF isdigit(stem) THEN int(stem) ELSE 0]
SortKey(stem) ==
    IF isdigit(stem) THEN [inf |-> FALSE, n |-> int(stem)]
    ELSE [inf |-> TRUE, n |-> 0]

\* a < b on keys that are ints or float("inf")
KeyLess(a, b) == ~a.inf /\ (b.inf \/ a.n < b.n)

\* insert x after every element whose key is not greater (stability)
RECURSIVE InsertByKey(_, _)
InsertByKey(x, s) ==
    IF s = <<>> THEN <<x>>
    ELSE IF KeyLess(SortKey(x), SortKey(s[1]))
         THEN <<x>> \o s
         ELSE <<s[1]>> \o InsertByKey(x, Tail(s))

RECURSIVE StableSort(_)
StableSort(s) ==
    IF s = <<>> THEN <<>>
    ELSE InsertByKey(s[Len(s)], StableSort(SubSeq(s, 1, Len(s) - 1)))

sorted(files) == StableSort(files)

SortRaises(files) == \E i \in 1..Len(files) : KeyRaises(files[i])

\* ------------------------------------------------------------- statistics
RECURSIVE Sum(_)
Sum(data) == IF data = <<>> THEN 0 ELSE data[1] + Sum(Tail(data))

RECURSIVE SumSquares(_)
SumSquares(data) ==
    IF data = <<>> THEN 0 ELSE data[1] * data[1] + SumSquares(Tail(data))

RECURSIVE InsertInt(_, _)
InsertInt(x, s) ==
    IF s = <<>> THEN <<x>>
    ELSE IF x < s[1] THEN <<x>> \o s ELSE <<s[1]>> \o InsertInt(x, Tail(s))

RECURSIVE SortInts(_)
SortInts(s) ==
    IF s = <<>> THEN <<>>
    ELSE InsertInt(s[Len(s)], SortInts(SubSeq(s, 1, Len(s) - 1)))

\* f"{num/den:.2f}" of a non-negative quotient, in hundredths: the nearest
\* hundredth, an exact tie going to the even one (ties arise only for
\* quotients that are exact in binary, where the format rounds half-even)
Fmt2(num, den) ==
    LET q == (200 * num + den) \div (2 * den)
        tie == (200 * num + den) % (2 * den) = 0
    IN  IF tie /\ q % 2 = 1 THEN q - 1 ELSE q

\* statistics.mean(data), printed with .2f
MeanFmt(data) == Fmt2(Sum(data), Len(data))

\* statistics.median(data): middle of the sorted data, or the average of the
\* two middle values
MedianFmt(data) ==
    LET s == SortInts(data)
        n == Len(data)
    IN  IF n % 2 = 1 THEN Fmt2(s[(n + 1) \div 2], 1)
        ELSE Fmt2(s[n \div 2] + s[n \div 2 + 1], 2)

min(data) == CHOOSE x \in {data[i] : i \in 1..Len(data)} :
                 \A j \in 1..Len(data) : x <= data[j]

max(data) == CHOOSE x \in {data[i] : i \in 1..Len(data)} :
                 \A j \in 1..Len(data) : x >= data[j]

\* statistics.stdev(data) needs two data points
StdevRaisesBelowThree(data) == Len(data) < 3
StdevRaises(data) == Len(data) < 2

\* sample standard deviation sqrt(ss / (n - 1)) with
\* ss = sum((x - mean)^2) = (n * sum(x^2) - sum(x)^2) / n, printed with .2f:
\* the h with (h - 1/2)^2 <= 10000 * ss / (n - 1) < (h + 1/2)^2
StdevFmt(data) ==
    LET n == Len(data)
        v == n * SumSquares(data) - Sum(data) * Sum(data)
        d == n * (n - 1)
    IN  CHOOSE h \in 0..(100 * max(data)) :
            /\ h > 0 => (2 * h - 1) * (2 * h - 1) * d <= 40000 * v
            /\ 40000 * v < (2 * h + 1) * (2 * h + 1) * d

\* Counter(data): a dict in insertion order, here a sequence of
\* [value, freq] entries with distinct values
CounterAdd(c, x) ==
    IF \E i \in 1..Len(c) : c[i].value = x
    THEN [i \in 1..Len(c) |->
             IF c[i].value = x THEN [c[i] EXCEPT !.freq = @ + 1] ELSE c[i]]
    ELSE Append(c, [value |-> x, freq |-> 1])

RECURSIVE Counter(_)
Counter(data) ==
    IF data = <<>> THEN <<>>
    ELSE CounterAdd(Counter(SubSeq(data, 1, Len(data) - 1)), data[Len(data)])

\* distribution.keys(), in insertion order
CounterKeys(c) == [i \in 1..Len(c) |-> c[i].value]

\* distribution[k]
CounterGet(c, k) == (CHOOSE e \in {c[i] : i \in 1..Len(c)} : e.value = k).freq

SortedKeysUnsorted(c) == CounterKeys(c)
SortedKeys(c) == SortInts(CounterKeys(c))

\* ------------------------------------------------------------ input sets
\* a file of n content lines, a whitespace-only line after every second one
FileBlock == <<INK, LF, INK, LF, SP, LF>>
MakeFile(n) ==
    [i \in 1..(6 * (n \div 2) + 2 * (n % 2)) |-> FileBlock[((i - 1) % 6) + 1]]

\* all sequences over S of length at most n
RECURSIVE SeqsUpTo(_, _)
SeqsUpTo(S, n) ==
    IF n = 0 THEN {<<>>}
    ELSE LET shorter == SeqsUpTo(S, n - 1)
         IN  shorter \cup {Append(q, x) : q \in shorter, x \in S}

NoRepeat(q) == \A i, j \in 1..Len(q) : i # j => q[i] # q[j]

\* file contents read during a run of main: by number of content lines
MainLineCounts == {7, 8, 12, 30}
MainContents == {MakeFile(n) : n \in MainLineCounts}

\* filename stems ("<stem>.txt") in the directories of a run of main
MainStems == {<<"2">>, <<"1", "0">>, <<"a">>, <<SUP2>>}

\* what dir_path.glob("*.txt") can enumerate: distinct names, in any order
Listings(stems, n) == {q \in SeqsUpTo(stems, n) : NoRepeat(q)}

\* inputs of the function-level specification
BigLineCounts == 27..31
FnContents == SeqsUpTo(FileChars, MaxChars) \cup {MakeFile(n) : n \in BigLineCounts}
FnFile == <<"hafiz-1", <<"1">>>>

\* ------------------------------------------------------------------ state
VARIABLES
    exists,       \* filesystem: directory name -> whether it exists
    listing,      \* filesystem: directory name -> glob("*.txt") enumeration
    pc,           \* position of main()
    dirIdx,       \* index into ghazal_dirs of the outer loop
    txt_files,    \* files of the current directory still to process
    handles,      \* file handles currently open
    line_counts,  \* the collection of (name, count) measurements
    counts_only,  \* line 32
    distribution, \* line 43
    keys,         \* sorted keys still to print (loop of line 44)
    out,          \* lines printed to standard output
    err,          \* the exception that ended the run, if any
    readLog,      \* every file opened so far, in order
    call,         \* SpecFn: the file content count_nonempty_lines is applied to
    ret           \* SpecFn: its outcome

vars == <<exists, listing, pc, dirIdx, txt_files, handles, line_counts,
          counts_only, distribution, keys, out, err, readLog, call, ret>>

mainVars == <<exists, listing, pc, dirIdx, txt_files, handles, line_counts,
              counts_only, distribution, keys, out, err, readLog>>

ghazal_dirs == <<"hafiz-1", "hafiz-2">>
DirNames == {ghazal_dirs[i] : i \in 1..Len(ghazal_dirs)}

DirError(dir) == [kind |-> "ValueError", what |-> "nodir", dir |-> dir]
KeyError(dir) == [kind |-> "ValueError", what |-> "int", dir |-> dir]
StatisticsError == [kind |-> "StatisticsError"]

ProgressLine(name, count) == [kind |-> "progress", name |-> name, count |-> count]

\* a `with` block releases the handle on every exit
ExitWithLeak(hs, h) == hs
ExitWith(hs, h) == hs \ {h}

\* `if line_counts:`
TruthyAlways(list) == TRUE
Truthy(list) == list # <<>>

\* `if not dir_path.exists()`, evaluated when the loop reaches the directory
DirMissingNever(dir) == FALSE
DirMissingNow(dir) == ~exists[dir]

Init ==
    /\ exists \in [DirNames -> BOOLEAN]
    /\ listing \in [DirNames -> Listings(MainStems, MaxFiles)]
    /\ \A d \in DirNames : ~exists[d] => listing[d] = <<>>
    /\ pc = "dir"
    /\ dirIdx = 1
    /\ txt_files = <<>>
    /\ handles = {}
    /\ line_counts = <<>>
    /\ counts_only = <<>>
    /\ distribution = <<>>
    /\ keys = <<>>
    /\ out = <<>>
    /\ err = NoError
    /\ readLog = <<>>
    /\ call = [fn |-> "main"]
    /\ ret = [done |-> FALSE]

\* ------------------------------------------------------- main, lines 12-25
\* lines 14-15
DirMissing ==
    /\ pc = "dir"
    /\ DirMissingNow(ghazal_dirs[dirIdx])
    /\ err' = DirError(ghazal_dirs[dirIdx])
    /\ pc' = "failed"
    /\ UNCHANGED <<exists, listing, dirIdx, txt_files, handles, line_counts,
                   counts_only, distribution, keys, out, readLog, call, ret>>

\* lines 17-20, the key function raising on a stem
SortFails ==
    /\ pc = "dir"
    /\ ~DirMissingNow(ghazal_dirs[dirIdx])
    /\ SortRaises(listing[ghazal_dirs[dirIdx]])
    /\ err' = KeyError(ghazal_dirs[dirIdx])
    /\ pc' = "failed"
    /\ UNCHANGED <<exists, listing, dirIdx, txt_files, handles, line_counts,
                   counts_only, distribution, keys, out, readLog, call, ret>>

\* lines 17-20
SortFiles ==
    /\ pc = "dir"
    /\ ~DirMissingNow(ghazal_dirs[dirIdx])
    /\ ~SortRaises(listing[ghazal_dirs[dirIdx]])
    /\ txt_files' = sorted(listing[ghazal_dirs[dirIdx]])
    /\ pc' = "files"
    /\ UNCHANGED <<exists, listing, dirIdx, handles, line_counts, counts_only,
                   distribution, keys, out, err, readLog, call, ret>>

\* line 22 -> 23 -> 49: the next file is opened; its content is whatever the
\* filesystem holds
OpenFile ==
    /\ pc = "files"
    /\ txt_files # <<>>
    /\ \E content \in MainContents :
         LET path == <<ghazal_dirs[dirIdx], txt_files[1]>> IN
         /\ handles' = handles \cup {[file |-> path, content |-> content]}
         /\ readLog' = Append(readLog, path)
    /\ pc' = "counting"
    /\ UNCHANGED <<exists, listing, dirIdx, txt_files, line_counts, counts_only,
                   distribution, keys, out, err, call, ret>>

CurrentHandle == CHOOSE h \in handles : h.file = <<ghazal_dirs[dirIdx], txt_files[1]>>

\* lines 50-54: the count is odd, the error leaves the with block and main
CountRaise ==
    /\ pc = "counting"
    /\ LET h == CurrentHandle
           r == count_nonempty_lines(h.file, h.content)
       IN  /\ r.exc.kind # "none"
           /\ err' = r.exc
           /\ handles' = ExitWith(handles, h)
    /\ pc' = "failed"
    /\ UNCHANGED <<exists, listing, dirIdx, txt_files, line_counts, counts_only,
                   distribution, keys, out, readLog, call, ret>>

\* lines 50-57, then 24-25: the count is returned, recorded and printed
CountReturn ==
    /\ pc = "counting"
    /\ LET h == CurrentHandle
           r == count_nonempty_lines(h.file, h.content)
           name == txt_files[1]
       IN  /\ r.exc.kind = "none"
           /\ handles' = ExitWith(handles, h)
           /\ line_counts' = Append(line_counts, [name |-> name, count |-> r.value])
           /\ out' = out \o r.printed \o <<ProgressLine(name, r.value)>>
    /\ txt_files' = Tail(txt_files)
    /\ pc' = "files"
    /\ UNCHANGED <<exists, listing, dirIdx, counts_only, distribution, keys,
                   err, readLog, call, ret>>

\* line 22 exhausted: on to the next directory, or to line 27
NextDir ==
    /\ pc = "files"
    /\ txt_files = <<>>
    /\ dirIdx' = dirIdx + 1
    /\ pc' = IF dirIdx = Len(ghazal_dirs) THEN "report" ELSE "dir"
    /\ UNCHANGED <<exists, listing, txt_files, handles, line_counts, counts_only,
                   distribution, keys, out, err, readLog, call, ret>>

\* ------------------------------------------------------- main, lines 27-45
StatLine(kind, value) == [kind |-> kind, value |-> value]

ReportEmptyBanner ==
    /\ pc = "report"
    /\ ~Truthy(line_counts)
    /\ out' = out \o <<StatLine("rule", 50), StatLine("banner", 0),
                       StatLine("rule", 50)>>
    /\ pc' = "done"
    /\ UNCHANGED <<exists, listing, dirIdx, txt_files, handles, line_counts,
                   counts_only, distribution, keys, err, readLog, call, ret>>

\* line 27 false: nothing more is done
ReportEmpty ==
    /\ pc = "report"
    /\ ~Truthy(line_counts)
    /\ pc' = "done"
    /\ UNCHANGED <<exists, listing, dirIdx, txt_files, handles, line_counts,
                   counts_only, distribution, keys, out, err, readLog, call, ret>>

\* lines 28-32
PrintBanner ==
    /\ pc = "report"
    /\ Truthy(line_counts)
    /\ out' = out \o <<StatLine("rule", 50), StatLine("banner", 0),
                       StatLine("rule", 50)>>
    /\ counts_only' = [i \in 1..Len(line_counts) |-> line_counts[i].count]
    /\ pc' = "summary"
    /\ UNCHANGED <<exists, listing, dirIdx, txt_files, handles, line_counts,
                   distribution, keys, err, readLog, call, ret>>

\* lines 34-38; statistics.mean raises on no data, after the total is printed
PrintSummary ==
    /\ pc = "summary"
    /\ IF counts_only = <<>>
       THEN /\ out' = Append(out, StatLine("total", Len(line_counts)))
            /\ err' = StatisticsError
            /\ pc' = "failed"
       ELSE /\ out' = out \o <<StatLine("total", Len(line_counts)),
                               StatLine("mean", MeanFmt(counts_only)),
                               StatLine("median", MedianFmt(counts_only)),
                               StatLine("min", min(counts_only)),
                               StatLine("max", max(counts_only))>>
            /\ err' = err
            /\ pc' = "stdev"
    /\ UNCHANGED <<exists, listing, dirIdx, txt_files, handles, line_counts,
                   counts_only, distribution, keys, readLog, call, ret>>

\* line 39 on fewer than two measurements
StdevFails ==
    /\ pc = "stdev"
    /\ StdevRaises(counts_only)
    /\ err' = StatisticsError
    /\ pc' = "failed"
    /\ UNCHANGED <<exists, listing, dirIdx, txt_files, handles, line_counts,
                   counts_only, distribution, keys, out, readLog, call, ret>>

\* line 39
PrintStdev ==
    /\ pc = "stdev"
    /\ ~StdevRaises(counts_only)
    /\ out' = Append(out, StatLine("stdev", StdevFmt(counts_only)))
    /\ pc' = "dist"
    /\ UNCHANGED <<exists, listing, dirIdx, txt_files, handles, line_counts,
                   counts_only, distribution, keys, err, readLog, call, ret>>

\* lines 41-44: the header, the Counter and the sorted keys of the loop
PrintDistHeader ==
    /\ pc = "dist"
    /\ out' = Append(out, StatLine("distribution", 0))
    /\ distribution' = Counter(counts_only)
    /\ keys' = SortedKeys(Counter(counts_only))
    /\ pc' = "entries"
    /\ UNCHANGED <<exists, listing, dirIdx, txt_files, handles, line_counts,
                   counts_only, err, readLog, call, ret>>

EntryLine(num_lines, freq) == [kind |-> "entry", value |-> num_lines, freq |-> freq]

\* line 45, one iteration of the loop of line 44
PrintEntry ==
    /\ pc = "entries"
    /\ keys # <<>>
    /\ out' = Append(out, EntryLine(keys[1], CounterGet(distribution, keys[1])))
    /\ keys' = Tail(keys)
    /\ UNCHANGED <<exists, listing, pc, dirIdx, txt_files, handles, line_counts,
                   counts_only, distribution, err, readLog, call, ret>>

\* the loop of line 44 is exhausted and main returns
Finish ==
    /\ pc = "entries"
    /\ keys = <<>>
    /\ pc' = "done"
    /\ UNCHANGED <<exists, listing, dirIdx, txt_files, handles, line_counts,
                   counts_only, distribution, keys, out, err, readLog, call, ret>>

Next ==
    \/ DirMissing
    \/ SortFails
    \/ SortFiles
    \/ OpenFile
    \/ CountRaise
    \/ CountReturn
    \/ NextDir
    \/ ReportEmpty
    \/ PrintBanner
    \/ PrintSummary
    \/ StdevFails
    \/ PrintStdev
    \/ PrintDistHeader
    \/ PrintEntry
    \/ Finish

Spec == Init /\ [][Next]_vars

\* ------------------------------------ count_nonempty_lines applied in isolation
FnCalls == {[fn |-> "count", content |-> c] : c \in FnContents}

InitFn ==
    /\ call \in FnCalls
    /\ ret = [done |-> FALSE]
    /\ exists = [d \in DirNames |-> TRUE]
    /\ listing = [d \in DirNames |-> <<>>]
    /\ pc = "fn"
    /\ dirIdx = 1
    /\ txt_files = <<>>
    /\ handles = {}
    /\ line_counts = <<>>
    /\ counts_only = <<>>
    /\ distribution = <<>>
    /\ keys = <<>>
    /\ out = <<>>
    /\ err = NoError
    /\ readLog = <<>>

\* count_nonempty_lines(filepath) on a file holding call.content
ApplyCount ==
    /\ call.fn = "count"
    /\ ~ret.done
    /\ LET r == count_nonempty_lines(FnFile, call.content)
       IN  ret' = [done |-> TRUE, exc |-> r.exc, printed |-> r.printed,
                   value |-> r.value]
    /\ UNCHANGED <<mainVars, call>>

NextFn == ApplyCount

SpecFn == InitFn /\ [][NextFn]_vars

\* ================================================================ claims
\* The number of lines of a raw file content that are non-empty after
\* stripping, stated on the content itself: a line is counted at its first
\* non-whitespace character, i.e. one with a line break between it and
\* every earlier non-whitespace character.
FirstInk(c, i) ==
    /\ c[i] \notin Whitespace
    /\ \A j \in 1..(i - 1) :
           c[j] \notin Whitespace => \E k \in (j + 1)..(i - 1) : c[k] \in {LF, CR}

NonEmptyLines(c) == Cardinality({i \in 1..Len(c) : FirstInk(c, i)})

Counted == call.fn = "count" /\ ret.done

\* C1: whenever the number N of lines that are non-empty after stripping is
\* even, count_nonempty_lines returns exactly N/2 (0 for an empty file or a
\* file of blank lines only); whitespace-only lines contribute nothing.
C1_EvenCountHalved ==
    (Counted /\ NonEmptyLines(call.content) % 2 = 0)
        => /\ ret.exc = NoError
           /\ 2 * ret.value = NonEmptyLines(call.content)

\* an even, positive count in a file that also holds a whitespace-only line
C1_Witness ==
    /\ Counted
    /\ NonEmptyLines(call.content) = 2
    /\ Len(FileLines(call.content)) > 2
    /\ ret.value = 1

\* C5 as stated: every file with more than 28 non-empty lines is counted
\* successfully, with a warning and the value N/2, and no file with 28 or
\* fewer gets a warning.
C5_Original ==
    Counted =>
        LET n == NonEmptyLines(call.content) IN
        /\ n > 28 => /\ ret.exc = NoError
                     /\ ret.printed = <<WarningLine(FnFile, n)>>
                     /\ 2 * ret.value = n
        /\ n <= 28 => ret.printed = <<>>

\* C5 (amended): a file with an even number n > 28 of non-empty lines is
\* counted successfully with exactly one warning naming the file and n, and
\* the value n/2; an odd n > 28 raises the odd-count error without a
\* warning; no warning is printed for n <= 28.
C5_WarningOnLargeEven ==
    Counted =>
        LET n == NonEmptyLines(call.content) IN
        /\ (n > 28 /\ n % 2 = 0) => /\ ret.exc = NoError
                                    /\ ret.printed = <<WarningLine(FnFile, n)>>
                                    /\ 2 * ret.value = n
        /\ (n > 28 /\ n % 2 = 1) => /\ ret.exc = OddError(FnFile, n)
                                    /\ ret.printed = <<>>
        /\ n <= 28 => ret.printed = <<>>

C5_Witness ==
    /\ Counted
    /\ NonEmptyLines(call.content) = 30
    /\ ret.printed # <<>>
    /\ ret.value = 15

\* ---------------------------------------------------------- runs of main
StatKinds == {"rule", "banner", "total", "mean", "median", "min", "max",
              "stdev", "distribution", "entry"}

IsStatLine(l) == l.kind \in StatKinds
StatLines == SelectSeq(out, IsStatLine)
StatKindsPrinted == [i \in 1..Len(StatLines) |-> StatLines[i].kind]

IsEntryLine(l) == l.kind = "entry"
Entries == SelectSeq(out, IsEntryLine)

IsProgressLine(l) == l.kind = "progress"
ProgressLines == SelectSeq(out, IsProgressLine)

OddFailure == pc = "failed" /\ err.kind = "ValueError" /\ err.what = "odd"
DirFailure == pc = "failed" /\ err.kind = "ValueError" /\ err.what = "nodir"
StatsFailure == pc = "failed" /\ err.kind = "StatisticsError"

DirIndex(dir) == CHOOSE i \in 1..Len(ghazal_dirs) : ghazal_dirs[i] = dir

\* C2: counting a file whose number N of non-empty lines is odd raises an
\* error naming the file and N, and the run ends there: no measurement and
\* no progress line is recorded for the file, nothing is read or printed
\* afterwards, and no statistics line has been printed.
C2_OddCountAborts ==
    /\ [][(pc = "counting" /\ NonEmptyLines(CurrentHandle.content) % 2 = 1)
            => /\ pc' = "failed"
               /\ err' = OddError(CurrentHandle.file,
                                  NonEmptyLines(CurrentHandle.content))
               /\ line_counts' = line_counts
               /\ out' = out
               /\ readLog' = readLog]_vars
    /\ [][pc = "failed" => UNCHANGED vars]_vars
    /\ [](OddFailure => /\ readLog # <<>>
                        /\ err.file = readLog[Len(readLog)]
                        /\ Len(line_counts) = Len(readLog) - 1
                        /\ Len(ProgressLines) = Len(readLog) - 1
                        /\ StatLines = <<>>)

\* an odd file met after another file was measured, with files still unread
C2_Witness ==
    /\ OddFailure
    /\ line_counts # <<>>
    /\ dirIdx = 1
    /\ listing["hafiz-2"] # <<>>

\* C3 as stated: at the moment of a directory-not-found failure no file of
\* any directory has been read or counted and nothing has been printed.
C3_Original ==
    DirFailure => /\ readLog = <<>>
                  /\ line_counts = <<>>
                  /\ out = <<>>

\* C3 (amended): a missing hafiz-1 fails the run before anything is read,
\* counted or printed; a missing hafiz-2 is detected only when the loop
\* reaches it, after every file of hafiz-1 has been read, counted and
\* reported; in both cases no file of the missing directory has been read
\* and no statistics line has been printed.
C3_DirMissingAbortsOnReach ==
    /\ (~exists["hafiz-1"] /\ pc # "dir")
           => (DirFailure /\ err.dir = "hafiz-1")
    /\ DirFailure =>
           /\ ~exists[err.dir]
           /\ ghazal_dirs[dirIdx] = err.dir
           /\ \A i \in 1..Len(readLog) : DirIndex(readLog[i][1]) < dirIdx
           /\ Len(readLog) = IF dirIdx = 1 THEN 0 ELSE Len(listing["hafiz-1"])
           /\ Len(line_counts) = Len(readLog)
           /\ Len(ProgressLines) = Len(readLog)
           /\ dirIdx = 1 => out = <<>>
           /\ StatLines = <<>>

\* hafiz-2 is found missing after a file of hafiz-1 was processed
C3_Witness ==
    /\ DirFailure
    /\ err.dir = "hafiz-2"
    /\ line_counts # <<>>

\* C4: within a directory files are processed in ascending order of numeric
\* stem, every non-numeric stem after all numeric ones, whatever the
\* enumeration order; all files of hafiz-1 precede all files of hafiz-2;
\* the collection follows the processing order and, once the loops are
\* done, holds every enumerated file.
C4_ProcessingOrder ==
    /\ \A i, j \in 1..Len(readLog) :
           i < j =>
               LET a == readLog[i]
                   b == readLog[j]
               IN  /\ DirIndex(a[1]) <= DirIndex(b[1])
                   /\ a[1] = b[1] =>
                          /\ (isdigit(a[2]) /\ isdigit(b[2])) => int(a[2]) <= int(b[2])
                          /\ ~isdigit(a[2]) => ~isdigit(b[2])
    /\ \A k \in 1..Len(line_counts) : line_counts[k].name = readLog[k][2]
    /\ (pc \notin {"dir", "files", "counting", "failed"})
           => /\ Len(line_counts) = Len(listing["hafiz-1"]) + Len(listing["hafiz-2"])
              /\ \A d \in DirNames : \A i \in 1..Len(listing[d]) :
                     \E k \in 1..Len(readLog) : readLog[k] = <<d, listing[d][i]>>

\* hafiz-1 enumerated as a.txt, 2.txt and processed as 2.txt, a.txt, then a
\* file of hafiz-2
C4_Witness ==
    /\ Len(readLog) >= 3
    /\ readLog[1] = <<"hafiz-1", <<"2">>>>
    /\ readLog[2] = <<"hafiz-1", <<"a">>>>
    /\ listing["hafiz-1"] = <<<<"a">>, <<"2">>>>
    /\ readLog[Len(readLog)][1] = "hafiz-2"
    /\ Len(line_counts) = Len(readLog)

ReportPcs == {"summary", "stdev", "dist", "entries", "done"}

\* C6: with exactly one measurement the standard-deviation step raises, the
\* error is not caught and the run ends abnormally with the statistics
\* section incomplete; with two or more measurements no statistics step
\* fails.
C6_SingleMeasurementFails ==
    /\ [][(pc = "stdev" /\ Len(line_counts) = 1)
            => (pc' = "failed" /\ err' = StatisticsError /\ out' = out)]_vars
    /\ [][(pc \in ReportPcs /\ Len(line_counts) >= 2) => pc' \in ReportPcs]_vars
    /\ [](StatsFailure => /\ Len(line_counts) = 1
                          /\ \A i \in 1..Len(out) :
                                 out[i].kind \notin {"stdev", "distribution", "entry"})
    /\ [](pc \in {"dist", "entries", "done"} => Len(line_counts) # 1)

\* the run of a single file has failed in the standard-deviation step
C6_Witness ==
    /\ StatsFailure
    /\ Len(line_counts) = 1
    /\ Len(readLog) = 1

\* C7 as stated: a run that has failed, for whatever reason, has printed no
\* part of the statistics section.
C7_Original == pc = "failed" => StatLines = <<>>

\* C7 (amended): a run that fails on an odd count, a missing directory or a
\* file name has printed no part of the statistics section; a run that
\* fails in the standard-deviation step has printed the banner, total,
\* mean, median, min and max, and neither a standard deviation nor any part
\* of the distribution; those appear only in runs that have not failed.
C7_PartialStatisticsOnlyBeforeStdev ==
    /\ (pc = "failed" /\ err.kind = "ValueError") => StatLines = <<>>
    /\ StatsFailure =>
           StatKindsPrinted = <<"rule", "banner", "rule", "total", "mean",
                                "median", "min", "max">>
    /\ (\E i \in 1..Len(out) : out[i].kind \in {"stdev", "distribution", "entry"})
           => (err = NoError /\ pc \in {"dist", "entries", "done"})

\* the statistics failure, with the first part of the section printed
C7_Witness ==
    /\ StatsFailure
    /\ \E i \in 1..Len(out) : out[i].kind = "max"
    /\ handles = {}

\* C8: when both directories exist and no file is selected from either, no
\* aggregation is performed, nothing of the statistics section is printed
\* and the run completes without error.
C8_EmptyCollectionNoStatistics ==
    /\ (\A d \in DirNames : exists[d] /\ listing[d] = <<>>)
           => /\ pc \in {"dir", "files", "report", "done"}
              /\ err = NoError
              /\ out = <<>>
              /\ counts_only = <<>>
              /\ distribution = <<>>
    /\ [][(pc = "report" /\ line_counts = <<>>)
            => (pc' = "done" /\ out' = out /\ err' = NoError)]_vars

\* the run over two empty directories has completed
C8_Witness ==
    /\ pc = "done"
    /\ \A d \in DirNames : exists[d] /\ listing[d] = <<>>
    /\ out = <<>>

CountOf(v) == Cardinality({k \in 1..Len(line_counts) : line_counts[k].count = v})

\* C9: the distribution entries are printed in strictly ascending order of
\* value, each with the number of measurements of that value; once the run
\* is done there is exactly one entry per distinct measurement value, the
\* frequencies sum to the printed total, and the printed min and max are
\* the first and last entry values.
C9_DistributionAscendingComplete ==
    /\ \A i, j \in 1..Len(Entries) : i < j => Entries[i].value < Entries[j].value
    /\ \A i \in 1..Len(Entries) :
           /\ Entries[i].freq = CountOf(Entries[i].value)
           /\ Entries[i].freq >= 1
    /\ (pc = "done" /\ line_counts # <<>>) =>
           /\ {Entries[i].value : i \in 1..Len(Entries)}
                  = {line_counts[k].count : k \in 1..Len(line_counts)}
           /\ Sum([i \in 1..Len(Entries) |-> Entries[i].freq]) = Len(line_counts)
           /\ \E i \in 1..Len(out) :
                  out[i] = StatLine("total", Len(line_counts))
           /\ \E i \in 1..Len(out) : out[i] = StatLine("min", Entries[1].value)
           /\ \E i \in 1..Len(out) :
                  out[i] = StatLine("max", Entries[Len(Entries)].value)

\* a finished run whose measurements repeat a value and were not collected
\* in ascending order
C9_Witness ==
    /\ pc = "done"
    /\ Len(Entries) >= 2
    /\ \E i \in 1..Len(Entries) : Entries[i].freq >= 2
    /\ line_counts[1].count > line_counts[2].count

\* C10: at most one file is open at any time, a file is opened only when no
\* other is open, and the handle is released whenever counting is left,
\* also when the odd-count error is raised.
C10_OneFileOpenAtATime ==
    /\ [](Cardinality(handles) <= 1)
    /\ [](pc = "counting" => /\ readLog # <<>>
                             /\ \E h \in handles : h.file = readLog[Len(readLog)])
    /\ [](pc # "counting" => handles = {})
    /\ [][readLog' # readLog => (handles = {} /\ Cardinality(handles') = 1)]_vars

\* the odd-count error has been raised on a second file and no handle is open
C10_Witness ==
    /\ OddFailure
    /\ Len(readLog) >= 2
    /\ handles = {}

====
